---- MODULE Spec2Model ----
(***************************************************************************)
(* Fire-and-forget polling (komyg/ng-fire-and-forget-polling).             *)
(*                                                                         *)
(* The model covers the NgRx store (randomNumberReducer), the effect       *)
(* RandomNumberEffects.randomNumberPolling$ with the RxJS operators it is  *)
(* built from (ofType, withLatestFrom, switchMap, timer, takeUntil, map,   *)
(* catchError), and the Value Source behind getRandomInteger: either the   *)
(* repository's RandomNumberService or the jasmine spy of the effect's     *)
(* tests, which answers with cold observables of arbitrary latency and     *)
(* outcome.                                                                *)
(*                                                                         *)
(* Time is virtual.  `now` is the scheduler's clock; it is observed up to  *)
(* MaxTime and reads MaxTime from then on.  Subscriptions carry the time   *)
(* left until they are due, so the pipeline keeps running after the clock  *)
(* reading has saturated.                                                  *)
(***************************************************************************)
EXTENDS Integers, Sequences, FiniteSets, TLC

\* ---------------------------------------------------------------- bounds
MaxTime == 80       \* the clock is observed up to this instant
MaxStarts == 2      \* number of startPolling actions dispatched in a run
MaxTick == 3        \* tick indices are told apart up to this one
MaxCalls == 3       \* calls the spy counts
RandDen == 4        \* Math.random() takes the values k / RandDen
MaxArg == 3         \* arguments of getRandomInteger called by itself

\* ------------------------------------------------------------- constants
TimeStep == 10          \* one marble frame of the test scheduler
PollingInterval == 30   \* selectPollingInterval of the effect's mock store

JsUndefined == "undefined"   \* the value of a missing property
NoError == [kind |-> "none", message |-> ""]
None == [timers |-> {}, attempts |-> {}]   \* nothing was unsubscribed

NoAction == [type |-> "none"]   \* nothing was dispatched yet
NoUnit == [op |-> "none"]   \* no unit was called by itself

Min2(a, b) == IF a <= b THEN a ELSE b

MinOf(S) == CHOOSE x \in S : \A y \in S : x <= y

\* ---------------------------------------------------------------- actions
startPolling(min, max) == [type |-> "[Polling] start", min |-> min, max |-> max]

pollingSuccess(randomNumber) ==
    [type |-> "[Polling] success", randomNumber |-> randomNumber]

pollingError(error) == [type |-> "[Polling] error", error |-> error]

\* error.message as JavaScript evaluates it: an Error object has a message,
\* a string has none.
MessageOf(error) ==
    IF error.kind = "Error" THEN error.message ELSE JsUndefined

\* ---------------------------------------------------------------- reducer
initialState ==
    [min |-> 0, max |-> 99, randomNumber |-> 0, errorMsg |-> "",
     pollingInterval |-> PollingInterval]

\* Faulty variant of the reducer: pollingSuccess keeps the error message.
randomNumberReducerKeepsError(state, action) ==
    CASE action.type = "[Polling] start" ->
            [state EXCEPT !.min = action.min, !.max = action.max]
      [] action.type = "[Polling] success" ->
            [state EXCEPT !.randomNumber = action.randomNumber]
      [] action.type = "[Polling] error" ->
            [state EXCEPT !.errorMsg = MessageOf(action.error)]
      [] OTHER -> state

\* Faulty variant of the reducer: the new state is spread from initialState
\* and not from state.
randomNumberReducerFromInitial(state, action) ==
    CASE action.type = "[Polling] start" ->
            [initialState EXCEPT !.min = action.min, !.max = action.max]
      [] action.type = "[Polling] success" ->
            [initialState EXCEPT !.randomNumber = action.randomNumber,
                                 !.errorMsg = ""]
      [] action.type = "[Polling] error" ->
            [initialState EXCEPT !.errorMsg = MessageOf(action.error)]
      [] OTHER -> state

\* Faulty variant of the reducer: pollingSuccess adds the number to the one
\* in state.
randomNumberReducerAccumulates(state, action) ==
    CASE action.type = "[Polling] start" ->
            [state EXCEPT !.min = action.min, !.max = action.max]
      [] action.type = "[Polling] success" ->
            [state EXCEPT !.randomNumber = @ + action.randomNumber,
                          !.errorMsg = ""]
      [] action.type = "[Polling] error" ->
            [state EXCEPT !.errorMsg = MessageOf(action.error)]
      [] OTHER -> state

\* Faulty variant of the reducer: an action it does not know resets the
\* state.
randomNumberReducerResets(state, action) ==
    CASE action.type = "[Polling] start" ->
            [state EXCEPT !.min = action.min, !.max = action.max]
      [] action.type = "[Polling] success" ->
            [state EXCEPT !.randomNumber = action.randomNumber, !.errorMsg = ""]
      [] action.type = "[Polling] error" ->
            [state EXCEPT !.errorMsg = MessageOf(action.error)]
      [] OTHER -> [initialState EXCEPT !.pollingInterval = 0]

randomNumberReducer(state, action) ==
    CASE action.type = "[Polling] start" ->
            [state EXCEPT !.min = action.min, !.max = action.max]
      [] action.type = "[Polling] success" ->
            [state EXCEPT !.randomNumber = action.randomNumber, !.errorMsg = ""]
      [] action.type = "[Polling] error" ->
            [state EXCEPT !.errorMsg = MessageOf(action.error)]
      [] OTHER -> state

selectPollingInterval(state) == state.pollingInterval

\* Faulty variant of the selector: it projects another field.
selectMin(state) == state.min

selectRandomNumber(state) == state.randomNumber

\* ----------------------------------------------------------- Value Source
\* RandomNumberService.getRandomInteger with Math.random() = k / RandDen.
\* Faulty variant of the service: min is not added.
getRandomIntegerNoOffset(min, max, k) == (k * (max - min)) \div RandDen

getRandomInteger(min, max, k) == ((k * (max - min)) \div RandDen) + min

Ok(delay, value) ==
    [delay |-> delay, ok |-> TRUE, value |-> value, error |-> NoError]

Fail(delay, error) ==
    [delay |-> delay, ok |-> FALSE, value |-> 0, error |-> error]

StringError == [kind |-> "string", message |-> "error"]
FakeError == [kind |-> "Error", message |-> "Fake error"]

\* Faulty variant of the service: it returns throwError(...).
OfThrowError(num) == Fail(0, FakeError)

\* return of(num): the number is delivered at once, then the observable
\* completes.
Of(num) == Ok(0, num)

\* What a call of the spy can answer once its returnValues are used up: the
\* cold observables of the effect's tests and slow and failing variants.
Responses ==
    { Ok(0, 42), Ok(10, 2), Ok(40, 42), Ok(30, 33),
      Fail(10, StringError), Fail(40, FakeError) }

\* returnValues of the spy: the three tests of the effect, a first attempt
\* that fails late, attempts that settle on the next tick, and none.
ReturnValues ==
    { << Ok(0, 42), Ok(0, 33), Ok(0, 2) >>,
      << Ok(40, 42), Ok(0, 33), Ok(10, 2) >>,
      << Fail(10, StringError), Ok(0, 33), Ok(0, 2) >>,
      << Fail(40, FakeError), Ok(0, 33), Ok(0, 2) >>,
      << Ok(30, 33), Fail(30, FakeError), Ok(0, 2) >>,
      << >> }

\* (min, max) pairs the form submits.
MinMaxInputs == { <<0, 99>>, <<1, 5>> }

\* Intervals the configuration holds: the reducer test's and the effect test's.
Intervals == { 10, PollingInterval }

VARIABLES
    store,       \* State.randomNumberFeature
    service,     \* which RandomNumberService is injected
    returnValues,\* the observables the spy was told to return, in call order
    stopTimer,   \* the stopTimer notifier handed to the effect
    now,         \* clock of the scheduler
    loopGen,     \* number of startPolling actions the outer switchMap has seen
    timers,      \* live subscriptions to timer(0, pollingInterval)
    attempts,    \* live subscriptions to getRandomInteger(...) results
    out,         \* actions the effect emitted in the last step
    issued,      \* Value Source calls made in the last step
    log,         \* frames the marble expectation recorded, oldest first
    calls,       \* number of calls the spy has counted
    stopSeen,    \* the notifier has fired on the current loop
    atStop,      \* attempts that were in flight when it fired
    unsub,       \* timers and attempts unsubscribed in the last step
    form,        \* MinMaxInputComponent: "shown" or "destroyed"
    unit,        \* the last call made on a unit by itself, with its result
    effect,      \* the observable of randomNumberPolling$: "subscribed",
                 \* or how an error left it
    lastAction,  \* the last action dispatched by the form or by NgRx
    shown        \* the value RandomNumberComponent.randomNumber$ last emitted

vars == << store, service, returnValues, stopTimer, now, loopGen, timers,
           attempts, out, issued, log, calls, stopSeen, atStop, unsub, form,
           unit, effect,
           lastAction, shown >>

Init ==
    /\ store = initialState
    /\ service \in {"RandomNumberService", "spy"}
    /\ returnValues \in IF service = "spy" THEN ReturnValues ELSE { << >> }
    /\ stopTimer \in {"EMPTY", "hot"}
    /\ now = 0
    /\ loopGen = 0
    /\ timers = {}
    /\ attempts = {}
    /\ out = << >>
    /\ issued = << >>
    /\ log = << >>
    /\ calls = 0
    /\ stopSeen = FALSE
    /\ atStop = {}
    /\ unsub = None
    /\ form = "shown"
    /\ unit = NoUnit
    /\ effect = "subscribed"
    /\ lastAction = NoAction
    /\ shown = selectRandomNumber(store)

\* ---------------------------------------------------------- RxJS operators
\* Faulty variants of the switchMaps: mergeMap, which unsubscribes nothing.
SwitchMapTimersMerge(ts, g) == ts

SwitchMapAttemptsMerge(as, g) == as

SwitchMapInnerMerge(as, g) == as

\* Faulty variant of takeUntil: the notifier is ignored.
TakeUntilTimersIgnored(ts, g) == ts

\* switchMap (outer): a new startPolling unsubscribes the inner observable of
\* the previous one, i.e. its timer and everything below it.
SwitchMapTimers(ts, g) == { t \in ts : t.gen # g }

SwitchMapAttempts(as, g) == { a \in as : a.gen # g }

\* switchMap (inner): a new tick unsubscribes the attempt of the previous
\* tick of the same timer.
SwitchMapInner(as, g) == { a \in as : a.gen # g }

\* takeUntil(stopTimer): the notifier unsubscribes the timer above it; the
\* inner switchMap below keeps its active inner subscription.
TakeUntilTimers(ts, g) == { t \in ts : t.gen # g }

TakeUntilAttempts(as, g) == as

\* map / catchError: the action an attempt's outcome is turned into.
OutcomeAction(resp) ==
    IF resp.ok THEN pollingSuccess(resp.value) ELSE pollingError(resp.error)

\* Faulty variant of the timer: timer(pollingInterval, pollingInterval).
TimerDueTimePeriod == PollingInterval

\* timer(0, period): the delay before the first tick.
TimerDueTime == 0

\* ---------------------------------------------------------------- history
Event(a, at) ==
    [type |-> OutcomeAction(a.resp).type, value |-> a.resp.value,
     error |-> a.resp.error, time |-> at, gen |-> a.gen, tick |-> a.tick]

\* Faulty variant of catchError: the failure is swallowed,
\* catchError(() => EMPTY).
EmitUncaught(a, at) == IF a.resp.ok THEN << Event(a, at) >> ELSE << >>

\* Faulty variant of map / catchError: the outcome of an attempt is emitted
\* twice.
EmitTwice(a, at) == << Event(a, at), Event(a, at) >>

\* map / catchError: what the effect emits when an attempt settles.
Emit(a, at) == << Event(a, at) >>

\* The marble expectation of a test observes the outcomes of the observables
\* the test configured.
Record(seq, a, at) == IF a.replayed THEN Append(seq, Event(a, at)) ELSE seq

\* A test of the effect configures returnValues and feeds the effect
\* actions$ = hot('a'): one startPolling, at frame 0.
InTest == returnValues # << >>

\* Faulty variant of the filter: ofType is missing.
ofTypeAny(action) == TRUE

\* ofType(startPolling).
ofType(action) == action.type = "[Polling] start"

\* Faulty variant of the filter: the actions the effect emits pass it too,
\* and the outer switchMap starts the timer of their loop again.
RedispatchTimersRestart(ts, emitted) ==
    IF emitted # << >>
    THEN { [t EXCEPT !.due = TimerDueTime, !.count = 0, !.age = 0] : t \in ts }
    ELSE ts

\* The actions the effect emits are dispatched, and actions$ hands every
\* dispatched action to the effect again: one that passes ofType reaches the
\* outer switchMap, which replaces the timer by one with the min and max the
\* action has, none.
RedispatchTimers(ts, emitted) ==
    IF \E i \in 1 .. Len(emitted) : ofType(emitted[i])
    THEN SwitchMapTimers(ts, loopGen) \cup
            { [gen |-> loopGen, min |-> JsUndefined, max |-> JsUndefined,
               period |-> selectPollingInterval(store'),
               due |-> TimerDueTime, count |-> 0, age |-> 0] }
    ELSE ts

RedispatchAttempts(as, emitted) ==
    IF \E i \in 1 .. Len(emitted) : ofType(emitted[i])
    THEN SwitchMapAttempts(as, loopGen)
    ELSE as

\* ---------------------------------------------------------------- actions
\* MinMaxInputComponent.onSubmit with a valid form: the action is dispatched,
\* the reducer applies it, then the effect sees it: withLatestFrom reads the
\* interval and the outer switchMap replaces the running timer by a new one.
StartPolling(min, max) ==
    /\ form = "shown"
    /\ effect # "errored"
    /\ loopGen < MaxStarts
    /\ InTest => (now = 0 /\ loopGen = 0)
    /\ LET next == randomNumberReducer(store, startPolling(min, max))
           pollingInterval == selectPollingInterval(next)
       IN /\ store' = next
          /\ timers' = SwitchMapTimers(timers, loopGen) \cup
                { [gen |-> loopGen + 1, min |-> min, max |-> max,
                   period |-> pollingInterval, due |-> TimerDueTime,
                   count |-> 0, age |-> 0] }
    /\ attempts' = SwitchMapAttempts(attempts, loopGen)
    /\ loopGen' = loopGen + 1
    /\ out' = << >>
    /\ issued' = << >>
    /\ stopSeen' = FALSE
    /\ atStop' = {}
    /\ unsub' = [timers |-> timers \ timers', attempts |-> attempts \ attempts']
    /\ UNCHANGED << service, returnValues, stopTimer, now, log, calls, form,
                    effect >>
    /\ shown' = selectRandomNumber(store')
    /\ lastAction' = startPolling(min, max)

\* Faulty variant of the call: the service is called with the range the
\* state starts with and not with the action's.
CallDefaults(t, resp) ==
    [gen |-> t.gen, tick |-> t.count, time |-> now, min |-> initialState.min,
     max |-> initialState.max, resp |-> resp]

\* getRandomInteger(action.min, action.max), action being the startPolling
\* the timer belongs to.
Call(t, resp) ==
    [gen |-> t.gen, tick |-> t.count, time |-> now, min |-> t.min,
     max |-> t.max, resp |-> resp]

\* Faulty variant of the timer: the period is read from the store at every
\* tick.
RearmReread(t) ==
    [t EXCEPT !.due = selectPollingInterval(store),
              !.count = Min2(t.count + 1, MaxTick)]

\* Faulty variant of the timer: timer(0), which ticks once.
RearmOnce(t) ==
    [t EXCEPT !.due = -1, !.count = Min2(t.count + 1, MaxTick)]

\* Faulty variant of the timer: the next tick waits for an attempt that is
\* still in flight.
RearmWaits(t) ==
    [t EXCEPT !.due = t.period + (IF attempts = {} THEN 0 ELSE TimeStep),
              !.count = Min2(t.count + 1, MaxTick)]

\* timer(0, period): after a tick the next one is due a period later.
Rearm(t) ==
    [t EXCEPT !.due = t.period, !.count = Min2(t.count + 1, MaxTick)]

\* The spy answers with the next of its returnValues, and with any response
\* once they are used up.
Replaying == calls < Len(returnValues)

SpyAnswers ==
    IF Replaying THEN { returnValues[calls + 1] } ELSE Responses

\* A tick of the timer with the spy as Value Source: the inner switchMap drops
\* the attempt of the previous tick and subscribes to the observable the spy
\* returns.
TickSpy(t, resp) ==
    /\ service = "spy"
    /\ t \in timers
    /\ t.due = 0
    /\ resp \in SpyAnswers
    /\ timers' = (timers \ {t}) \cup {Rearm(t)}
    /\ attempts' = SwitchMapInner(attempts, t.gen) \cup
            { [gen |-> t.gen, tick |-> t.count, remaining |-> resp.delay,
               resp |-> resp, replayed |-> Replaying] }
    /\ out' = << >>
    /\ issued' = << Call(t, resp) >>
    /\ calls' = Min2(calls + 1, MaxCalls)
    /\ unsub' = [timers |-> {}, attempts |-> attempts \ attempts']
    /\ UNCHANGED << store, service, returnValues, stopTimer, now, loopGen,
                    log, stopSeen, atStop, form, unit, effect, lastAction,
                    shown >>

\* A tick with the repository's RandomNumberService: of(num) delivers inside
\* the subscription, so the success action is emitted and reduced in the same
\* step.
TickService(t, k) ==
    /\ service = "RandomNumberService"
    /\ t \in timers
    /\ t.due = 0
    /\ LET resp == Of(getRandomInteger(t.min, t.max, k))
           a == [gen |-> t.gen, tick |-> t.count, remaining |-> 0,
                 resp |-> resp, replayed |-> FALSE]
       IN /\ out' = Emit(a, now)
          /\ store' = IF out' = << >> THEN store
                      ELSE randomNumberReducer(store, OutcomeAction(resp))
          /\ issued' = << Call(t, resp) >>
    /\ timers' = RedispatchTimers((timers \ {t}) \cup {Rearm(t)}, out')
    /\ attempts' = RedispatchAttempts(SwitchMapInner(attempts, t.gen), out')
    /\ unsub' = [timers |-> {}, attempts |-> attempts \ attempts']
    /\ UNCHANGED << service, returnValues, stopTimer, now, loopGen, log,
                    calls, stopSeen, atStop, form, unit, effect, lastAction >>
    /\ shown' = selectRandomNumber(store')

\* An attempt settles: map or catchError turns the outcome into an action,
\* the effect emits it and the store reduces it.
Settle(a) ==
    /\ a \in attempts
    /\ a.remaining = 0
    /\ out' = Emit(a, now)
    /\ store' = IF out' = << >> THEN store
                ELSE randomNumberReducer(store, OutcomeAction(a.resp))
    /\ timers' = RedispatchTimers(timers, out')
    /\ attempts' = RedispatchAttempts(attempts \ {a}, out')
    /\ log' = IF out' = << >> THEN log ELSE Record(log, a, now)
    /\ issued' = << >>
    /\ unsub' = None
    /\ UNCHANGED << service, returnValues, stopTimer, now, loopGen, calls,
                    stopSeen, atStop, form, unit, effect, lastAction >>
    /\ shown' = selectRandomNumber(store')

\* The stopTimer notifier emits while a timer is subscribed to it.
Stop ==
    /\ stopTimer = "hot"
    /\ \E t \in timers : t.gen = loopGen
    /\ timers' = TakeUntilTimers(timers, loopGen)
    /\ attempts' = TakeUntilAttempts(attempts, loopGen)
    /\ stopSeen' = TRUE
    /\ atStop' = attempts
    /\ out' = << >>
    /\ issued' = << >>
    /\ unsub' = [timers |-> timers \ timers', attempts |-> attempts \ attempts']
    /\ UNCHANGED << store, service, returnValues, stopTimer, now, loopGen,
                    log, calls, form, unit, effect, lastAction, shown >>

\* Virtual time passes up to the next due subscription, at most one frame.
Pending == { t.due : t \in timers } \cup { a.remaining : a \in attempts }

Advance ==
    /\ \A d \in Pending : d > 0
    /\ LET d == MinOf({TimeStep} \cup Pending)
       IN /\ now' = Min2(now + d, MaxTime)
          /\ timers' = { [t EXCEPT !.due = t.due - d,
                                    !.age = Min2(t.age + d, MaxTime)] :
                          t \in timers }
          /\ attempts' =
                { [a EXCEPT !.remaining = a.remaining - d] : a \in attempts }
    /\ out' = << >>
    /\ issued' = << >>
    /\ unsub' = None
    /\ UNCHANGED << store, service, returnValues, stopTimer, loopGen, log,
                    calls, stopSeen, atStop, form, unit, effect, lastAction,
                    shown >>

\* The user navigates away and Angular destroys MinMaxInputComponent; the
\* effect belongs to the root EffectsModule and is not touched.
Destroy ==
    /\ form = "shown"
    /\ form' = "destroyed"
    /\ out' = << >>
    /\ issued' = << >>
    /\ unsub' = None
    /\ UNCHANGED << store, service, returnValues, stopTimer, now, loopGen,
                    timers, attempts, log, calls, stopSeen, atStop, unit,
                    effect, lastAction, shown >>

Next ==
    \/ \E m \in MinMaxInputs : StartPolling(m[1], m[2]) /\ UNCHANGED unit
    \/ \E t \in timers : \E resp \in SpyAnswers : TickSpy(t, resp)
    \/ \E t \in timers : \E k \in 0 .. RandDen - 1 : TickService(t, k)
    \/ \E a \in attempts : Settle(a)
    \/ Stop
    \/ Advance
    \/ Destroy

Spec == Init /\ [][Next]_vars

\* The scheduler runs every due timer and delivers every settled result, and
\* time passes.
Fairness ==
    /\ WF_vars(\E t \in timers : \E resp \in SpyAnswers : TickSpy(t, resp))
    /\ WF_vars(\E t \in timers : \E k \in 0 .. RandDen - 1 : TickService(t, k))
    /\ WF_vars(\E a \in attempts : Settle(a))
    /\ WF_vars(Advance)

LiveSpec == Init /\ [][Next]_vars /\ Fairness

\* The configured interval changes while the program runs: the observable
\* that withLatestFrom listens to emits another value. The tests of the effect
\* fix the value for the whole test.
Reconfigure(p) ==
    /\ ~InTest
    /\ p # selectPollingInterval(store)
    /\ store' = [store EXCEPT !.pollingInterval = p]
    /\ out' = << >>
    /\ issued' = << >>
    /\ unsub' = None
    /\ UNCHANGED << service, returnValues, stopTimer, now, loopGen, timers,
                    attempts, log, calls, stopSeen, atStop, form, unit,
                    effect, lastAction >>
    /\ shown' = selectRandomNumber(store')

NextConfig ==
    \/ Next
    \/ \E p \in Intervals : Reconfigure(p)

\* The program in an environment whose configuration is not fixed.
SpecConfig == Init /\ [][NextConfig]_vars

\* ------------------------------------------------------- units by themselves
\* States handed to the reducer: the reducer test's state is one of them.
UnitStates ==
    [min : {0, 1}, max : {5, 99}, randomNumber : {0, 42},
     errorMsg : {"", "Fake error", JsUndefined}, pollingInterval : Intervals]

\* Actions handed to the reducer: the three of the program and one of NgRx.
UnitActions ==
    { startPolling(m[1], m[2]) : m \in MinMaxInputs } \cup
    { pollingSuccess(n) : n \in {0, 33, 42} } \cup
    { pollingError(e) : e \in {FakeError, StringError} } \cup
    { [type |-> "@ngrx/store/init"] }

UnitInit ==
    /\ store \in UnitStates
    /\ service = "RandomNumberService"
    /\ returnValues = << >>
    /\ stopTimer = "EMPTY"
    /\ now = 0
    /\ loopGen = 0
    /\ timers = {}
    /\ attempts = {}
    /\ out = << >>
    /\ issued = << >>
    /\ log = << >>
    /\ calls = 0
    /\ stopSeen = FALSE
    /\ atStop = {}
    /\ unsub = None
    /\ form = "shown"
    /\ unit = NoUnit
    /\ effect = "subscribed"
    /\ lastAction = NoAction
    /\ shown = selectRandomNumber(store)

\* Each unit has a test bed of its own: a run calls one unit, again and again.
Testing(op) == unit.op \in {"none", op}

\* The store hands an action to the reducer and keeps the state it returns.
Dispatch(action) ==
    /\ Testing("randomNumberReducer")
    /\ store' = randomNumberReducer(store, action)
    /\ unit' = [op |-> "randomNumberReducer", before |-> store,
                action |-> action]
    /\ UNCHANGED << service, returnValues, stopTimer, now, loopGen, timers,
                    attempts, out, issued, log, calls, stopSeen, atStop,
                    unsub, form, effect, lastAction >>
    /\ shown' = selectRandomNumber(store')

\* service.getRandomInteger(min, max).subscribe(...), Math.random() being
\* k / RandDen.
Generate(min, max, k) ==
    /\ Testing("getRandomInteger")
    /\ unit' = [op |-> "getRandomInteger", min |-> min, max |-> max,
                value |-> getRandomInteger(min, max, k)]
    /\ UNCHANGED << store, service, returnValues, stopTimer, now, loopGen,
                    timers, attempts, out, issued, log, calls, stopSeen,
                    atStop, unsub, form, effect, lastAction, shown >>

\* What the user typed into a control of the form: the text, and the number
\* JavaScript reads it as.
Input(text, kind, num) == [text |-> text, kind |-> kind, num |-> num]

FormInputs ==
    { Input(<< >>, "empty", 0),
      Input(<< "0" >>, "integer", 0),
      Input(<< "5" >>, "integer", 5),
      Input(<< "1", "0" >>, "integer", 10),
      Input(<< "-", "1" >>, "integer", -1),
      Input(<< "1", ".", "5" >>, "fraction", 1),
      Input(<< "a" >>, "text", 0) }

Digits == { "0", "1", "2", "3", "4", "5", "6", "7", "8", "9" }

\* Faulty variant of the control: Validators.required is missing.
NotRequired(v) == TRUE

\* Validators.required: the control holds a value.
Required(v) == Len(v.text) > 0

\* Validators.pattern('^[0-9]*$'): an empty control is not tested.
Pattern(v) == \A i \in 1 .. Len(v.text) : v.text[i] \in Digits

\* inputForm.invalid: a validator of a control fails.
Invalid(minInput, maxInput) ==
    \E v \in {minInput, maxInput} : ~Required(v) \/ ~Pattern(v)

PipelineState ==
    [store |-> store, timers |-> timers, attempts |-> attempts,
     loopGen |-> loopGen]

\* MinMaxInputComponent.onSubmit.
OnSubmit(minInput, maxInput) ==
    /\ Testing("onSubmit")
    /\ IF Invalid(minInput, maxInput)
       THEN /\ unit' = [op |-> "onSubmit", minInput |-> minInput,
                        maxInput |-> maxInput, before |-> PipelineState,
                        dispatched |-> << >>]
            /\ UNCHANGED << store, service, returnValues, stopTimer, now,
                            loopGen, timers, attempts, out, issued, log,
                            calls, stopSeen, atStop, unsub, form, effect,
                            lastAction, shown >>
       ELSE /\ StartPolling(minInput.num, maxInput.num)
            /\ unit' = [op |-> "onSubmit", minInput |-> minInput,
                        maxInput |-> maxInput, before |-> PipelineState,
                        dispatched |->
                           << startPolling(minInput.num, maxInput.num) >>]

\* Arguments the service is called with: 0 .. MaxArg, and the 99 of its test.
Args == 0 .. MaxArg \cup {99}

UnitNext ==
    \/ \E action \in UnitActions : Dispatch(action)
    \/ \E min \in Args : \E max \in Args : \E k \in 0 .. RandDen - 1 :
          Generate(min, max, k)
    \/ \E minInput \in FormInputs : \E maxInput \in FormInputs :
          OnSubmit(minInput, maxInput)

\* The reducer, the service and the form, each called by itself as the unit
\* tests call them.
UnitSpec == UnitInit /\ [][UnitNext]_vars

\* ------------------------------------------------ a Value Source that throws
\* What a call throws: a TypeError, as when the spy has run out of
\* returnValues, returns undefined and the project function calls .pipe on
\* it.
ThrownError == [kind |-> "Error", message |-> "thrown"]

\* A tick whose getRandomInteger(...).pipe(...) throws inside the project
\* function of the inner switchMap: there is no observable for catchError to
\* guard, the switchMaps pass the error on and the observable of the effect
\* ends with it, all its subscriptions gone. Whether the EffectsModule then
\* subscribes to the effect anew is not decided by this repository.
TickThrows(t, left) ==
    /\ service = "spy"
    /\ ~Replaying
    /\ t \in timers
    /\ t.due = 0
    /\ left \in {"resubscribed", "errored"}
    /\ effect' = left
    /\ timers' = {}
    /\ attempts' = {}
    /\ out' = << >>
    /\ issued' = << Call(t, Fail(0, ThrownError)) >>
    /\ calls' = Min2(calls + 1, MaxCalls)
    /\ unsub' = [timers |-> timers, attempts |-> attempts]
    /\ UNCHANGED << store, service, returnValues, stopTimer, now, loopGen,
                    log, stopSeen, atStop, form, unit, lastAction, shown >>

NextThrow ==
    \/ Next
    \/ \E t \in timers : \E left \in {"resubscribed", "errored"} :
          TickThrows(t, left)

\* The program with a Value Source whose calls can throw.
SpecThrow == Init /\ [][NextThrow]_vars

\* ------------------------------------------- other actions on the stream
\* Actions of NgRx itself, which every reducer and every effect is handed.
OtherActions ==
    { [type |-> "@ngrx/store/init"], [type |-> "@ngrx/effects/init"] }

\* An action is dispatched that is not startPolling: the reducer is handed
\* it, and the effect lets it pass only if ofType does; the outer switchMap
\* would then start a timer with the min and max the action has, none.
OtherAction(action) ==
    /\ effect # "errored"
    /\ ~InTest
    /\ store' = randomNumberReducer(store, action)
    /\ IF ofType(action)
       THEN /\ timers' = SwitchMapTimers(timers, loopGen) \cup
                   { [gen |-> loopGen, min |-> JsUndefined,
                      max |-> JsUndefined,
                      period |-> selectPollingInterval(store'),
                      due |-> TimerDueTime, count |-> 0, age |-> 0] }
            /\ attempts' = SwitchMapAttempts(attempts, loopGen)
       ELSE UNCHANGED << timers, attempts >>
    /\ out' = << >>
    /\ issued' = << >>
    /\ unsub' = [timers |-> timers \ timers', attempts |-> attempts \ attempts']
    /\ UNCHANGED << service, returnValues, stopTimer, now, loopGen, log,
                    calls, stopSeen, atStop, form, unit, effect >>
    /\ shown' = selectRandomNumber(store')
    /\ lastAction' = action

NextActions ==
    \/ Next
    \/ \E action \in OtherActions : OtherAction(action)

\* The program with the actions of NgRx on the action stream.
SpecActions == Init /\ [][NextActions]_vars

TypeOK ==
    /\ loopGen \in 0 .. MaxStarts
    /\ now \in 0 .. MaxTime
    /\ Len(log) <= Len(returnValues)
    /\ calls \in 0 .. MaxCalls
    /\ Len(out) <= 1
    /\ Len(issued) <= 1

\* ------------------------------------------------------------ properties
Running == timers # {}

NoStop == stopTimer = "EMPTY"

\* k is the index of the latest tick of timer t (indices from MaxTick on are
\* not told apart).
IsLatest(t, k) ==
    IF t.count < MaxTick THEN k = t.count - 1 ELSE k >= MaxTick - 1

SameAttempt(x, y) == x.gen = y.gen /\ x.tick = y.tick

Frame(type, value, error, time, tick) ==
    [type |-> type, value |-> value, error |-> error, time |-> time,
     gen |-> 1, tick |-> tick]

SuccessTest == << Ok(0, 42), Ok(0, 33), Ok(0, 2) >>
ErrorTest == << Fail(10, StringError), Ok(0, 33), Ok(0, 2) >>
LateFailure == << Fail(40, FakeError), Ok(0, 33), Ok(0, 2) >>

\* The test with these returnValues has run past the tick at 2 * interval
\* without a stop.
ScenarioDone(script) ==
    /\ returnValues = script
    /\ loopGen = 1
    /\ \E t \in timers : t.period = 30 /\ t.count = 3 /\ t.due < t.period

\* C1: once a startPolling has been processed, the timer and the attempt of
\* the loop it replaced are unsubscribed: every live timer, every live attempt
\* and every action the effect emits (and the store reduces) belongs to the
\* loop of the latest startPolling.
C1_StartCancelsOldLoop ==
    /\ \A t \in timers : t.gen = loopGen
    /\ \A a \in attempts : a.gen = loopGen
    /\ \A i \in 1 .. Len(out) : out[i].gen = loopGen

\* A startPolling with the same min and max as the running loop has just
\* unsubscribed that loop's timer and its attempt in flight.
C1_Witness ==
    /\ loopGen = 2
    /\ unsub.attempts # {}
    /\ \E o \in unsub.timers : \E t \in timers :
          o.gen = 1 /\ t.gen = 2 /\ o.min = t.min /\ o.max = t.max

\* C2: within a loop only the attempt of the latest tick is subscribed and
\* only its outcome is emitted: an attempt that is unsettled when the next
\* tick fires yields no action, success or error.
C2_SupersededAttemptSilent ==
    \A t \in timers :
        /\ \A a \in attempts : a.gen = t.gen => IsLatest(t, a.tick)
        /\ \A i \in 1 .. Len(out) : out[i].gen = t.gen => IsLatest(t, out[i].tick)

\* A tick has just dropped the failing attempt of the previous tick of its
\* own loop, and the loop goes on.
C2_Witness ==
    /\ issued # << >>
    /\ \E a \in unsub.attempts :
          /\ a.gen = loopGen
          /\ ~a.resp.ok
          /\ a.tick = issued[1].tick - 1
          /\ a.remaining > 0

\* C3: a failure that arrives before the next tick is emitted as exactly one
\* pollingError and leaves the timer subscribed with its schedule; with
\* interval 30 and a first attempt failing after 10 the frames are
\* pollingError at 10, pollingSuccess at 30 and at 60.
C3_ErrorDoesNotStopLoop ==
    /\ (out # << >> /\ out[1].type = "[Polling] error" /\ ~stopSeen) =>
          /\ Len(out) = 1
          /\ out[1].error # NoError
          /\ \E t \in timers : t.gen = out[1].gen /\ IsLatest(t, out[1].tick)
    /\ ScenarioDone(ErrorTest) =>
          log = << Frame("[Polling] error", 0, StringError, 10, 0),
                   Frame("[Polling] success", 33, NoError, 30, 1),
                   Frame("[Polling] success", 2, NoError, 60, 2) >>

C3_Witness ==
    /\ ScenarioDone(ErrorTest)
    /\ Len(log) = 3
    /\ log[1].type = "[Polling] error"

\* C4: at most one timer is subscribed and at most one attempt is in flight.
C4_AtMostOneLoopAndAttempt ==
    /\ Cardinality(timers) <= 1
    /\ Cardinality(attempts) <= 1

\* A second startPolling has been processed and its loop has an attempt in
\* flight.
C4_Witness ==
    /\ loopGen = 2
    /\ Cardinality(timers) = 1
    /\ \E a \in attempts : a.gen = 2 /\ a.remaining > 0

\* No startPolling and no stop can reach the pipeline any more: the form is
\* gone and the notifier is EMPTY.
Unattended == NoStop /\ form = "destroyed"

\* An attempt in flight that settles before the next tick of its timer.
Fast == \E a \in attempts : \E t \in timers : a.gen = t.gen /\ a.remaining < t.due

\* C5: with stopTimer = EMPTY the pipeline is Running in every state after a
\* startPolling, and it issues Value Source calls again and again, also once
\* the component that dispatched the action is destroyed.
C5_FireAndForget ==
    /\ []((NoStop /\ loopGen > 0) => Running)
    /\ (NoStop /\ loopGen > 0) ~> (issued # << >>)
    /\ (Unattended /\ loopGen > 0) ~> (issued # << >> /\ form = "destroyed")

\* The loop issues its call of tick MaxTick or later after the form was
\* destroyed.
C5_Witness ==
    /\ Unattended
    /\ issued # << >>
    /\ issued[1].tick = MaxTick

\* C6 as stated: a loop that is never superseded or stopped emits an outcome
\* action again and again.
C6_Original == (Unattended /\ Running) ~> (out # << >>)

\* C6, amended: a loop that is never superseded or stopped emits an outcome
\* action whenever an attempt settles before the next tick fires, which every
\* attempt of the repository's RandomNumberService does.
C6_FastAttemptsYieldOutcomes ==
    (Unattended /\ Running /\ (Fast \/ service = "RandomNumberService"))
        ~> (out # << >>)

\* An unattended loop emits the outcome of a call of tick MaxTick or later.
C6_Witness ==
    /\ Unattended
    /\ Running
    /\ out # << >>
    /\ out[1].tick = MaxTick

\* C7 as stated: after the stop signal nothing is emitted before the next
\* startPolling.
C7_Original == stopSeen => out = << >>

\* C7, amended: the stop signal unsubscribes the timer and the pipeline is
\* Idle, but the attempt in flight at that moment stays subscribed: until the
\* next startPolling the only action that can be emitted is its outcome.
C7_StopKeepsAttemptInFlight ==
    stopSeen =>
        /\ ~Running
        /\ \A a \in attempts : \E b \in atStop : SameAttempt(a, b)
        /\ \A i \in 1 .. Len(out) : \E b \in atStop : SameAttempt(out[i], b)

\* The outcome of the attempt that was in flight is emitted after the stop.
C7_Witness ==
    /\ stopSeen
    /\ out # << >>
    /\ \E b \in atStop : SameAttempt(out[1], b) /\ b.remaining > 0

\* C8: after the notifier has emitted, the timer of that loop is unsubscribed
\* and no Value Source call is issued until the next startPolling.
C8_StopEndsTicks ==
    stopSeen =>
        /\ issued = << >>
        /\ \A t \in timers : t.gen # loopGen

\* The stop came while an attempt was in flight, and an interval has passed
\* since without a tick.
C8_Witness ==
    /\ stopSeen
    /\ atStop # {}
    /\ attempts = {}
    /\ now = MaxTime

\* The stop came before tick 0 of the loop fired.
C8_WitnessBeforeTick0 ==
    /\ stopSeen
    /\ \E t \in unsub.timers : t.count = 0

\* C9: interval 30, attempts answering 42, 33 and 2 with no delay: the frames
\* are exactly pollingSuccess(42) at 0, pollingSuccess(33) at 30 and
\* pollingSuccess(2) at 60.
C9_SuccessScenario ==
    ScenarioDone(SuccessTest) =>
        log = << Frame("[Polling] success", 42, NoError, 0, 0),
                 Frame("[Polling] success", 33, NoError, 30, 1),
                 Frame("[Polling] success", 2, NoError, 60, 2) >>

C9_Witness ==
    /\ ScenarioDone(SuccessTest)
    /\ Len(log) = 3
    /\ now = 70

\* C10: interval 30, a first attempt failing after 40: the tick at 30 drops
\* it, so the frames are pollingSuccess at 30 and at 60 and nothing else.
C10_LateFailureScenario ==
    ScenarioDone(LateFailure) =>
        log = << Frame("[Polling] success", 33, NoError, 30, 1),
                 Frame("[Polling] success", 2, NoError, 60, 2) >>

C10_Witness ==
    /\ ScenarioDone(LateFailure)
    /\ Len(log) = 2
    /\ now = 70

\* C11: tick 0 of a loop fires at the instant its startPolling is processed,
\* whether it is the first one or one replacing a running loop, and tick k
\* fires exactly k intervals after that instant (ticks and ages the model
\* still tells apart).
C11_TickSchedule ==
    issued # << >> =>
        /\ issued[1].time = now
        /\ \E t \in timers :
              /\ t.gen = issued[1].gen
              /\ (issued[1].tick < MaxTick /\ t.age < MaxTime) =>
                    t.age = issued[1].tick * t.period

\* A loop that replaced a running one has issued the call of its tick 1, one
\* interval after its own start and not a multiple of the interval after the
\* start of the first loop.
C11_Witness ==
    /\ loopGen = 2
    /\ issued # << >>
    /\ issued[1].gen = 2
    /\ issued[1].tick = 1
    /\ \E t \in timers : t.age = t.period /\ now # t.age /\ now < MaxTime

\* C12: the interval of a loop is the one the store holds when its
\* startPolling arrives; it stays the loop's interval whatever the store
\* holds later, every tick re-arms the timer with it, and tick k is issued k
\* times that interval after the start.
C12_IntervalCapturedAtStart ==
    /\ [][\A u \in timers' :
            /\ (\A t \in timers : t.gen # u.gen) =>
                  u.period = selectPollingInterval(store)
            /\ \A t \in timers : t.gen = u.gen => u.period = t.period]_vars
    /\ [](issued # << >> =>
            \E t \in timers :
                /\ t.gen = issued[1].gen
                /\ t.due = t.period
                /\ (issued[1].tick < MaxTick /\ t.age < MaxTime) =>
                      t.age = issued[1].tick * t.period)

\* The store's interval was changed after the loop started, and the loop has
\* issued its tick 2 on its own interval.
C12_Witness ==
    /\ issued # << >>
    /\ issued[1].tick = 2
    /\ \E t \in timers :
          /\ t.gen = issued[1].gen
          /\ t.period # selectPollingInterval(store)
          /\ t.age = 2 * t.period

\* C13: for min <= max, min = max included, every value getRandomInteger
\* produces satisfies min <= value < max.
C13_ValueInHalfOpenRange ==
    (unit.op = "getRandomInteger" /\ unit.min <= unit.max) =>
        (unit.min <= unit.value /\ unit.value < unit.max)

\* The reducer was handed an action of this type, and store is what it
\* returned.
Reduced(type) == unit.op = "randomNumberReducer" /\ unit.action.type = type

\* C14: pollingSuccess applied to any state sets randomNumber to the action's
\* number and errorMsg to the empty string and leaves min, max and
\* pollingInterval as they were.
C14_SuccessSetsValueClearsError ==
    Reduced("[Polling] success") =>
        /\ store.randomNumber = unit.action.randomNumber
        /\ store.errorMsg = ""
        /\ store.min = unit.before.min
        /\ store.max = unit.before.max
        /\ store.pollingInterval = unit.before.pollingInterval

\* A pollingSuccess was applied to a state holding an error message and
\* another number.
C14_Witness ==
    /\ Reduced("[Polling] success")
    /\ unit.before.errorMsg = "Fake error"
    /\ unit.before.randomNumber # unit.action.randomNumber

\* C15: pollingError applied to any state sets errorMsg to the message of the
\* action's Error and leaves randomNumber, min, max and pollingInterval as
\* they were.
C15_ErrorKeepsLastValue ==
    Reduced("[Polling] error") =>
        /\ unit.action.error.kind = "Error" =>
              store.errorMsg = unit.action.error.message
        /\ store.randomNumber = unit.before.randomNumber
        /\ store.min = unit.before.min
        /\ store.max = unit.before.max
        /\ store.pollingInterval = unit.before.pollingInterval

\* A pollingError with an Error was applied to a state without error message
\* that holds the number 42.
C15_Witness ==
    /\ Reduced("[Polling] error")
    /\ unit.action.error = FakeError
    /\ unit.before.errorMsg = ""
    /\ unit.before.randomNumber = 42
    /\ store.errorMsg = "Fake error"

\* C16: startPolling applied to any state sets min and max to the action's
\* and leaves randomNumber, errorMsg and pollingInterval as they were.
C16_StartSetsMinMaxOnly ==
    Reduced("[Polling] start") =>
        /\ store.min = unit.action.min
        /\ store.max = unit.action.max
        /\ store.randomNumber = unit.before.randomNumber
        /\ store.errorMsg = unit.before.errorMsg
        /\ store.pollingInterval = unit.before.pollingInterval

\* A startPolling with another min and max was applied to a state holding an
\* error message and the number 42.
C16_Witness ==
    /\ Reduced("[Polling] start")
    /\ unit.before.min # unit.action.min
    /\ unit.before.max # unit.action.max
    /\ unit.before.errorMsg = "Fake error"
    /\ unit.before.randomNumber = 42

\* C17: the error message in state changes only when the effect emits an
\* outcome: no startPolling, tick, stop or passage of time touches it; a
\* pollingError replaces it by the message of its own error and keeps the
\* number; a pollingSuccess empties it and sets the number to its value.
C17_ErrorRetainedUntilSuccess ==
    [][/\ out' = << >> => store'.errorMsg = store.errorMsg
       /\ (out' # << >> /\ out'[1].type = "[Polling] error") =>
             /\ out'[1].error.kind = "Error" =>
                   store'.errorMsg = out'[1].error.message
             /\ store'.errorMsg # ""
             /\ store'.randomNumber = store.randomNumber
       /\ (out' # << >> /\ out'[1].type = "[Polling] success") =>
             /\ store'.errorMsg = ""
             /\ store'.randomNumber = out'[1].value]_vars

\* A failing attempt was followed by a succeeding one: the log ends with a
\* pollingError and a pollingSuccess, the success was just emitted, and the
\* state holds no error message and the number of the success.
C17_Witness ==
    /\ Len(log) >= 2
    /\ log[Len(log) - 1].type = "[Polling] error"
    /\ log[Len(log) - 1].error = FakeError
    /\ log[Len(log)].type = "[Polling] success"
    /\ out = << log[Len(log)] >>
    /\ store.errorMsg = ""
    /\ store.randomNumber = log[Len(log)].value

\* An error message has stayed in state through a second startPolling.
C17_WitnessRetained ==
    /\ loopGen = 2
    /\ out = << >>
    /\ store.errorMsg = "Fake error"
    /\ \E t \in timers : t.count = 0

\* C18: applying the same action twice gives the state that applying it once
\* gives, for pollingSuccess, startPolling and pollingError: store being what
\* the reducer returned for the action, the reducer returns store for it.
C18_ReducerIdempotent ==
    unit.op = "randomNumberReducer" =>
        randomNumberReducer(store, unit.action) = store

\* A pollingSuccess was applied to a state holding another number, not 0.
C18_Witness ==
    /\ Reduced("[Polling] success")
    /\ unit.before.randomNumber = 42
    /\ store.randomNumber = 33

\* The text is a non-negative integer written in decimal digits.
NonNegativeInteger(v) == v.kind = "integer" /\ v.num >= 0

\* C19: onSubmit dispatches only when both controls hold a non-negative
\* integer, and then exactly one startPolling with the form's min and max,
\* which the store reduces; with an invalid control nothing is dispatched
\* and the store, the timers, the attempts and the loop count stay as they
\* were.
C19_SubmitOnlyValidForm ==
    unit.op = "onSubmit" =>
        LET ok == NonNegativeInteger(unit.minInput) /\
                  NonNegativeInteger(unit.maxInput)
            action == startPolling(unit.minInput.num, unit.maxInput.num)
        IN /\ ok => /\ unit.dispatched = << action >>
                    /\ store = randomNumberReducer(unit.before.store, action)
                    /\ loopGen = unit.before.loopGen + 1
           /\ ~ok => /\ unit.dispatched = << >>
                     /\ PipelineState = unit.before

\* The form was submitted with a negative min while a loop was running, and
\* nothing happened.
C19_Witness ==
    /\ unit.op = "onSubmit"
    /\ unit.minInput.num = -1
    /\ NonNegativeInteger(unit.maxInput)
    /\ unit.dispatched = << >>
    /\ timers # {}

\* The form was submitted with 10 and 5 and the action went out.
C19_WitnessValid ==
    /\ unit.op = "onSubmit"
    /\ unit.dispatched = << startPolling(10, 5) >>
    /\ store.min = 10

\* C20: the outcomes the effect emits, which the store reduces as they are
\* emitted, come in the order of their ticks: of two recorded outcomes the
\* earlier one belongs to the earlier tick, and when an outcome is emitted
\* every attempt of its loop still subscribed belongs to a later tick, so an
\* attempt can be dropped but never overtaken.
C20_OutcomesInTickOrder ==
    /\ \A i \in 1 .. Len(log) : \A j \in 1 .. Len(log) :
          i < j => (log[i].tick < log[j].tick /\ log[i].time <= log[j].time)
    /\ \A i \in 1 .. Len(out) : \A a \in attempts :
          (a.gen = out[i].gen /\ a.tick < MaxTick) => out[i].tick < a.tick

\* The outcome of tick 0 was recorded, the attempt of tick 1 was dropped, and
\* the outcome of tick 2 was recorded after it.
C20_Witness ==
    /\ Len(log) = 2
    /\ log[1].tick = 0
    /\ log[2].tick = 2
    /\ out = << log[2] >>

\* C21: however an attempt fails, by an error of the returned observable or
\* by a throw of the call, the observable of the effect does not end with an
\* error, and after a failing call or an emitted pollingError the timer of the
\* loop is still subscribed, so later ticks issue attempts.
C21_EveryFailureRecovered ==
    /\ effect = "subscribed"
    /\ (issued # << >> /\ ~issued[1].resp.ok) =>
          \E t \in timers : t.gen = issued[1].gen
    /\ (out # << >> /\ out[1].type = "[Polling] error" /\ ~stopSeen) =>
          \E t \in timers : t.gen = out[1].gen

\* C22: until the first startPolling is processed no timer is subscribed, no
\* attempt is in flight, no Value Source call is issued and no outcome is
\* emitted, whatever other actions are dispatched; and a step that processes
\* no startPolling subscribes no timer of a new loop.
C22_IdleBeforeFirstStart ==
    /\ [](loopGen = 0 =>
            (timers = {} /\ attempts = {} /\ issued = << >> /\ out = << >>))
    /\ [][loopGen' = loopGen =>
            \A u \in timers' : \E t \in timers : t.gen = u.gen]_vars

\* An action of NgRx was dispatched before any startPolling, and time has
\* passed since.
C22_Witness ==
    /\ loopGen = 0
    /\ lastAction \in OtherActions
    /\ now = MaxTime
    /\ timers = {}

\* C23: a tick issues exactly one Value Source call, no other step issues
\* any, and every call is made with the min and max of the latest
\* startPolling, whose loop it belongs to.
C23_OneCallPerTickWithBoundRange ==
    /\ [](issued # << >> =>
            /\ Len(issued) = 1
            /\ issued[1].gen = loopGen
            /\ lastAction.type = "[Polling] start"
            /\ issued[1].min = lastAction.min
            /\ issued[1].max = lastAction.max)
    /\ [][LET ticked == { t \in timers : t.due = 0 /\ Rearm(t) \in timers' }
          IN /\ \A t \in ticked :
                   Len(issued') = 1 /\ issued'[1].tick = t.count
             /\ issued' # << >> => ticked # {}]_vars

\* The second startPolling carried another range than the state started
\* with, and tick 1 of its loop has called the service with it.
C23_Witness ==
    /\ loopGen = 2
    /\ issued # << >>
    /\ issued[1].tick = 1
    /\ issued[1].min = 1
    /\ issued[1].max = 5
    /\ initialState.min # 1

\* C24: the schedule of a timer depends on its age alone: tick 0 is due at
\* age 0 and tick k at age k * period, whatever the attempts of the loop do
\* (ticks and ages the model still tells apart); the ticks are issued in
\* order, none twice and none skipped.
C24_TicksOnSchedule ==
    /\ [](\A t \in timers :
            /\ t.due >= 0
            /\ t.due <= t.period
            /\ (t.count < MaxTick /\ t.age < MaxTime) =>
                  t.age + t.due = t.count * t.period)
    /\ [][\A u \in timers' : \A t \in timers :
            (u.gen = t.gen /\ t.count < MaxTick) =>
                \/ u.count = t.count /\ issued' = << >>
                \/ /\ u.count = t.count + 1
                   /\ issued' # << >>
                   /\ issued'[1].tick = t.count]_vars

\* Tick 2 fires two periods after the start at the moment it drops the
\* attempt of tick 1, which was going to fail.
C24_Witness ==
    /\ issued # << >>
    /\ issued[1].tick = 2
    /\ \E t \in timers : t.gen = issued[1].gen /\ t.age = 2 * t.period
    /\ \E a \in unsub.attempts : a.tick = 1 /\ ~a.resp.ok /\ a.remaining > 0

\* C25: the state changes only when a startPolling is processed or an outcome
\* is emitted: any other action leaves all of it as it was; and
\* pollingInterval is in every state the positive value the program started
\* with.
C25_OnlyThreeMutationPaths ==
    /\ [](/\ store.pollingInterval = initialState.pollingInterval
          /\ store.pollingInterval > 0)
    /\ [][store' # store => (loopGen' = loopGen + 1 \/ out' # << >>)]_vars

\* An action of NgRx was dispatched to a state that a startPolling and a
\* pollingError had changed, and the state is still the changed one.
C25_Witness ==
    /\ lastAction \in OtherActions
    /\ store.min = 1
    /\ store.max = 5
    /\ store.errorMsg = "Fake error"
    /\ store.pollingInterval = PollingInterval

\* C26: a startPolling processed after a stop subscribes a timer for its min
\* and max exactly as one processed in the initial state does: tick 0 due at
\* once, age and count 0, no attempt left of the stopped loop; and its tick 0
\* is then issued at that same instant with that min and max.
C26_RestartAfterStop ==
    /\ [][(timers = {} /\ loopGen' = loopGen + 1) =>
            /\ attempts' = {}
            /\ ~stopSeen'
            /\ timers' = { [gen |-> loopGen', min |-> lastAction'.min,
                            max |-> lastAction'.max,
                            period |-> selectPollingInterval(store'),
                            due |-> 0, count |-> 0, age |-> 0] }]_vars
    /\ [](\A t \in timers : t.count = 0 => (t.due = 0 /\ t.age = 0))
    /\ [](issued # << >> /\ issued[1].tick = 0 =>
            \E t \in timers : /\ t.age = 0
                              /\ issued[1].min = t.min
                              /\ issued[1].max = t.max)

\* The loop of the first startPolling was stopped with an attempt in flight;
\* the second startPolling has just dropped that attempt and subscribed its
\* timer, at a later instant.
C26_Witness ==
    /\ stopTimer = "hot"
    /\ loopGen = 2
    /\ form = "shown"
    /\ ~stopSeen
    /\ unsub.timers = {}
    /\ unsub.attempts # {}
    /\ now > 0
    /\ \E t \in timers : t.count = 0 /\ t.gen = 2

\* C27: with the repository's RandomNumberService every tick emits exactly
\* one pollingSuccess, at the instant of the tick and with the number the
\* call produced, nothing else is ever emitted, no attempt stays in flight
\* and errorMsg is the empty string in every state.
C27_ReferenceServiceNeverFails ==
    service = "RandomNumberService" =>
        /\ store.errorMsg = ""
        /\ attempts = {}
        /\ issued # << >> =>
              /\ Len(out) = 1
              /\ out[1].type = "[Polling] success"
              /\ out[1].time = issued[1].time
              /\ out[1].gen = issued[1].gen
              /\ out[1].tick = issued[1].tick
              /\ out[1].value = issued[1].resp.value
              /\ store.randomNumber = out[1].value
        /\ out # << >> => issued # << >>

\* The second loop of the application has had its tick 2 answered.
C27_Witness ==
    /\ service = "RandomNumberService"
    /\ loopGen = 2
    /\ out # << >>
    /\ out[1].tick = 2
    /\ out[1].time = now
    /\ now < MaxTime

\* C28: the value randomNumber$ last emitted, which the component displays,
\* is the randomNumber of the current state in every state: after a
\* pollingSuccess is reduced it is that action's number.
C28_DisplayShowsLatestValue ==
    /\ shown = store.randomNumber
    /\ (out # << >> /\ out[1].type = "[Polling] success") =>
          shown = out[1].value

\* A pollingSuccess with another number than the one displayed before was
\* just reduced, in a state with min and max other than that number.
C28_Witness ==
    /\ out # << >>
    /\ out[1].type = "[Polling] success"
    /\ out[1].tick > 0
    /\ shown = 2
    /\ store.min # shown
    /\ store.max # shown

\* C29: whatever value an attempt failed with, errorMsg is a string in every
\* state, never the undefined that JavaScript gives for a missing property.
C29_ErrorMsgIsString == store.errorMsg # JsUndefined

\* C30 as stated: in every state of the application the stored number lies
\* in the stored range.
C30_Original ==
    service = "RandomNumberService" =>
        (store.min <= store.randomNumber /\ store.randomNumber < store.max)

\* C30, amended: in the application, once tick 0 of the current loop has been
\* answered, the stored range is the loop's and, if min < max, the stored
\* number lies in it; every pollingSuccess carries a number of the range of
\* its call.
C30_ValueInRangeOnceLoopAnswered ==
    service = "RandomNumberService" =>
        /\ \A t \in timers :
              (t.gen = loopGen /\ t.count >= 1) =>
                  /\ store.min = t.min
                  /\ store.max = t.max
                  /\ t.min < t.max =>
                        /\ t.min <= store.randomNumber
                        /\ store.randomNumber < t.max
        /\ (out # << >> /\ issued[1].min < issued[1].max) =>
              /\ issued[1].min <= out[1].value
              /\ out[1].value < issued[1].max

\* The second loop, for the range 1 to 5, has had its tick 1 answered with
\* the smallest number of its range.
C30_Witness ==
    /\ service = "RandomNumberService"
    /\ loopGen = 2
    /\ store.min = 1
    /\ store.max = 5
    /\ out # << >>
    /\ out[1].tick = 1
    /\ store.randomNumber = 1

\* C31: while a loop is running, the min and max the store holds are the min
\* and max bound to the running loop: the reducer and the effect both take
\* every startPolling, so whatever the sequence of starts, the timer that is
\* live carries the range the state shows.
C31_StoreRangeIsLoopRange ==
    \A t \in timers : t.min = store.min /\ t.max = store.max

\* A second startPolling with another range has replaced the first loop and
\* the new loop has ticked.
C31_Witness ==
    /\ loopGen = 2
    /\ lastAction = startPolling(1, 5)
    /\ store.min = 1
    /\ store.max = 5
    /\ \E t \in timers : t.gen = 2 /\ t.min = 1 /\ t.max = 5 /\ t.count >= 1
    /\ \E a \in attempts : a.gen = 2

\* C32: every call of the service the application makes has min <= max: no
\* startPolling that the min/max form dispatches carries min > max, and so
\* no loop the form starts is bound to such a range.
C32_FormDispatchesOrderedRange ==
    unit.op = "onSubmit" =>
        /\ \A i \in 1 .. Len(unit.dispatched) :
              unit.dispatched[i].min <= unit.dispatched[i].max
        /\ \A t \in timers : t.min <= t.max

\* C33: each tick gives rise to at most one outcome, so a loop never emits
\* more outcomes than it has fired ticks. A step emits at most one action; an
\* emitted pollingSuccess or pollingError is the outcome of one attempt, which
\* was subscribed and due or was issued by the tick of this very step, and
\* which is not subscribed afterwards; a step subscribes to a new attempt
\* only with a call of the service; and in a test the outcomes recorded never
\* outnumber the calls the spy has counted.
C33_AtMostOneOutcomePerTick ==
    /\ [](/\ Len(out) <= 1
          /\ InTest => Len(log) <= calls)
    /\ [][/\ \A i \in 1 .. Len(out') :
                /\ \/ \E a \in attempts :
                         SameAttempt(a, out'[i]) /\ a.remaining = 0
                   \/ /\ Len(issued') = 1
                      /\ SameAttempt(issued'[1], out'[i])
                /\ ~ \E a \in attempts' : a.gen = out'[i].gen
          /\ (\E b \in attempts' : ~ \E a \in attempts : SameAttempt(a, b))
                => Len(issued') = 1]_vars

\* In a test three ticks have fired and the second recorded outcome has just
\* been emitted: the attempt of one tick was dropped without an outcome.
C33_Witness ==
    /\ InTest
    /\ calls = 3
    /\ Len(log) = 2
    /\ Len(out) = 1
    /\ out[1] = log[2]
    /\ out[1].tick = 2

\* What a loop is bound to: its startPolling, range and period.
LoopOf(t) == [gen |-> t.gen, min |-> t.min, max |-> t.max, period |-> t.period]

\* C34: the pollingSuccess and pollingError actions the effect emits come
\* back on the action stream and change nothing of the loop. In a step that
\* emits one, no startPolling is counted, no timer is back before its tick
\* 0, every timer stays subscribed with its range and period (it is as
\* before, or re-armed by the tick of this step), no timer appears, and the
\* only attempts that go are the one whose
\* outcome it is and those a tick of this step supersedes. In any step, the
\* set of loops changes only by a startPolling or by the stop signal.
C34_OutcomesLeaveLoopAlone ==
    /\ [][out' # << >> =>
            /\ loopGen' = loopGen
            /\ stopSeen' = stopSeen
            /\ \A u \in timers' : u.count >= 1
            /\ \A t \in timers : \E u \in timers' : u = t \/ u = Rearm(t)
            /\ \A u \in timers' :
                  \E t \in timers : u = t \/ (t.due = 0 /\ u = Rearm(t))
            /\ attempts' \subseteq attempts
            /\ \A a \in attempts \ attempts' :
                  \/ \E i \in 1 .. Len(out') : SameAttempt(a, out'[i])
                  \/ issued' # << >>]_vars
    /\ [][{ LoopOf(t) : t \in timers' } # { LoopOf(t) : t \in timers } =>
            (loopGen' = loopGen + 1 \/ (stopSeen' /\ ~stopSeen))]_vars

\* A pollingError has just been emitted for a late failure while the timer
\* of its loop, two ticks on, waits for its next tick.
C34_Witness ==
    /\ Len(out) = 1
    /\ out[1].type = "[Polling] error"
    /\ \E t \in timers :
          /\ t.gen = out[1].gen
          /\ t.gen = loopGen
          /\ t.count >= 2
          /\ t.due > 0
          /\ t.min = store.min

\* C35: after the stop signal the stopped loop emits at most one more
\* outcome, that of the attempt that was in flight when the signal came, and
\* nothing after it until the next startPolling. At most one attempt is in
\* flight at the stop; while the loop stays stopped a step emits at most one
\* action, which is the outcome of that attempt and leaves no attempt
\* subscribed; and once no attempt is subscribed no step emits anything
\* before a startPolling is processed.
C35_AtMostOneOutcomeAfterStop ==
    /\ [](stopSeen =>
            /\ Cardinality(atStop) <= 1
            /\ Cardinality(attempts) <= 1)
    /\ [][(stopSeen /\ stopSeen') =>
            /\ out' # << >> =>
                  /\ Len(out') = 1
                  /\ \E b \in atStop : SameAttempt(out'[1], b)
                  /\ \E a \in attempts : SameAttempt(out'[1], a)
                  /\ attempts' = {}
            /\ attempts = {} => (out' = << >> /\ attempts' = {})]_vars

\* In the test 'should handle a timeout' the stop came at frame 70 while the
\* attempt of tick 2 was in flight; its outcome, 2, was recorded at that
\* frame after the stop, and time has run on to the end with nothing
\* subscribed and nothing emitted.
C35_Witness ==
    /\ stopSeen
    /\ loopGen = 1
    /\ returnValues = << Ok(40, 42), Ok(0, 33), Ok(10, 2) >>
    /\ timers = {}
    /\ attempts = {}
    /\ out = << >>
    /\ now = MaxTime
    /\ \E b \in atStop : b.tick = 2 /\ b.remaining = 0
    /\ Len(log) = 2
    /\ log[2] = Frame("[Polling] success", 2, NoError, 70, 2)

====
